---- MODULE Spec2Model ----
(***************************************************************************)
(* Prompt Studio: the React component App (src/src/App.tsx) and the two    *)
(* service functions of src/src/services/geminiService.ts.                 *)
(*                                                                         *)
(* Strings that the program inspects or builds (MIME types, prompts, data  *)
(* URIs) are sequences of one-character strings, so that startsWith, trim  *)
(* and concatenation are computed the way the code computes them.  The     *)
(* user-visible messages are never inspected and are TLA+ strings.         *)
(* An optional value (null, undefined, an absent field) is a sequence of   *)
(* length 0 or 1: None is << >>, Some(x) is <<x>>.                         *)
(***************************************************************************)
EXTENDS Integers, Sequences, FiniteSets, TLC

None == << >>
Some(x) == <<x>>
IsSome(o) == Len(o) = 1
Get(o) == o[1]

(***************************************************************************)
(* String literals of the source.                                          *)
(***************************************************************************)
IMAGE_PREFIX == <<"i","m","a","g","e","/">>
VIDEO_PREFIX == <<"v","i","d","e","o","/">>
IMAGE_PNG == <<"i","m","a","g","e","/","p","n","g">>
STYLE_NONE == <<"n","o","n","e">>
STYLE_LINE == <<"\n","S","t","y","l","e",":"," ">>
NEGATIVE_LINE ==
    <<"\n","N","e","g","a","t","i","v","e"," ","p","r","o","m","p","t",":"," ">>
FALLBACK_PROMPT ==
    <<"F","a","i","l","e","d"," ","t","o"," ","g","e","n","e","r","a","t","e",
      " ","p","r","o","m","p","t",".">>
DATA_SCHEME == <<"d","a","t","a",":">>
BASE64_MARK == <<";","b","a","s","e","6","4",",">>
UNDEFINED_TEXT == <<"u","n","d","e","f","i","n","e","d">>

MSG_NOT_MEDIA == "Please upload an image or video file."
MSG_TOO_LARGE == "File size exceeds 15MB limit. Please choose a smaller file."
MSG_PROMPT_FAILED == "Failed to generate prompt. Please try again."
MSG_NO_PROMPT == "Please enter a prompt first."
MSG_IMAGE_FAILED == "Failed to generate image. Please try again."

MAX_FILE_SIZE == 15 * 1024 * 1024

(***************************************************************************)
(* JavaScript string operations used by the source.                        *)
(***************************************************************************)
\* String.prototype.startsWith
startsWith(s, p) == Len(s) >= Len(p) /\ SubSeq(s, 1, Len(p)) = p

\* the characters String.prototype.trim removes (those the inputs can hold)
IsWhiteSpace(c) == c \in {" ", "\n", "\t"}

RECURSIVE trimStart(_)
trimStart(s) ==
    IF s # << >> /\ IsWhiteSpace(Head(s)) THEN trimStart(Tail(s)) ELSE s

RECURSIVE trimEnd(_)
trimEnd(s) ==
    IF s # << >> /\ IsWhiteSpace(s[Len(s)])
    THEN trimEnd(SubSeq(s, 1, Len(s) - 1))
    ELSE s

\* String.prototype.trim
trim(s) == trimEnd(trimStart(s))

\* truthiness of a string: every string but the empty one
Truthy(s) == s # << >>

\* a template literal's ${...} of an optional string: undefined prints as
\* the text "undefined"
Interpolate(o) == IF IsSome(o) THEN Get(o) ELSE UNDEFINED_TEXT

(***************************************************************************)
(* geminiService.ts: generatePromptFromMedia.                              *)
(* A reply of the remote model is None when the call rejects (network or   *)
(* service failure) and Some(response) otherwise.  The result of a service *)
(* function is None when it raises and Some(string) when it returns.       *)
(***************************************************************************)
\* the media part and the request of generateContent
DescribeRequest(mimeType, base64Data) ==
    [mimeType |-> mimeType, data |-> base64Data]

\* a slip: response.text ?? "..." keeps an empty text
describeTextNullish(response) ==
    IF IsSome(response.text) THEN Get(response.text) ELSE FALLBACK_PROMPT

\* return response.text || "Failed to generate prompt."
describeText(response) ==
    IF IsSome(response.text) /\ Truthy(Get(response.text))
    THEN Get(response.text)
    ELSE FALLBACK_PROMPT

\* what the awaited call gives handleGeneratePrompt
generatePromptFromMedia(reply) ==
    IF IsSome(reply) THEN Some(describeText(Get(reply))) ELSE None

(***************************************************************************)
(* geminiService.ts: generateImageFromPrompt.                              *)
(***************************************************************************)
\* a slip: the two appends in the other order
finalPromptNegativeFirst(promptText, styleName, negative) ==
    LET withNegative == IF Truthy(negative)
                        THEN promptText \o NEGATIVE_LINE \o negative
                        ELSE promptText
    IN  IF styleName # STYLE_NONE
        THEN withNegative \o STYLE_LINE \o styleName
        ELSE withNegative

\* let finalPrompt = prompt; if (style !== "none") ...; if (negativePrompt) ...
finalPrompt(promptText, styleName, negative) ==
    LET withStyle == IF styleName # STYLE_NONE
                     THEN promptText \o STYLE_LINE \o styleName
                     ELSE promptText
    IN  IF Truthy(negative)
        THEN withStyle \o NEGATIVE_LINE \o negative
        ELSE withStyle

\* the request of generateContent: parts [{text: finalPrompt}].  The aspect
\* ratio is handed through to config.imageConfig unread and is left out.
SynthRequest(promptText, styleName, negative) ==
    [text |-> finalPrompt(promptText, styleName, negative)]

\* response.candidates?.[0]?.content?.parts || []
responseParts(response) ==
    IF ~IsSome(response.candidates) THEN << >>
    ELSE IF Get(response.candidates) = << >> THEN << >>
    ELSE LET first == Get(response.candidates)[1]
         IN  IF ~IsSome(first.content) THEN << >>
             ELSE IF ~IsSome(Get(first.content).parts) THEN << >>
             ELSE Get(Get(first.content).parts)

\* `data:${part.inlineData.mimeType || 'image/png'};base64,${part.inlineData.data}`
dataUri(inlineData) ==
    LET mime == IF IsSome(inlineData.mimeType) /\ Truthy(Get(inlineData.mimeType))
                THEN Get(inlineData.mimeType)
                ELSE IMAGE_PNG
    IN  DATA_SCHEME \o mime \o BASE64_MARK \o Interpolate(inlineData.data)

\* a slip: only parts[0] is looked at
scanPartsFirstOnly(parts) ==
    IF parts = << >> THEN None
    ELSE IF IsSome(Head(parts).inlineData)
         THEN Some(dataUri(Get(Head(parts).inlineData)))
         ELSE None

\* for (const part of parts) { if (part.inlineData) return ... } throw ...
RECURSIVE scanParts(_)
scanParts(parts) ==
    IF parts = << >> THEN None
    ELSE IF IsSome(Head(parts).inlineData)
         THEN Some(dataUri(Get(Head(parts).inlineData)))
         ELSE scanParts(Tail(parts))

\* what the awaited call gives handleGenerateImage
generateImageFromPrompt(reply) ==
    IF IsSome(reply) THEN scanParts(responseParts(Get(reply))) ELSE None

(***************************************************************************)
(* Inputs: the files a user can pick or drop, the texts a user can type,   *)
(* the options of the two selects, and the replies of the remote model.    *)
(***************************************************************************)
MaxPending == 2

VIDEO_MP4 == <<"v","i","d","e","o","/","m","p","4">>
IMAGE_JPEG == <<"i","m","a","g","e","/","j","p","e","g">>
TEXT_PLAIN == <<"t","e","x","t","/","p","l","a","i","n">>

File(type, size) == [type |-> type, size |-> size]
Files ==
    { File(IMAGE_PNG, MAX_FILE_SIZE), File(IMAGE_PNG, MAX_FILE_SIZE + 1),
      File(VIDEO_MP4, 1), File(VIDEO_MP4, MAX_FILE_SIZE + 1),
      File(TEXT_PLAIN, 1), File(TEXT_PLAIN, MAX_FILE_SIZE + 1),
      File(<< >>, 1) }

TypedPrompts == {<< >>, <<" ">>, <<"d","o","g">>}
TypedNegatives == {<< >>, <<"b","l","u","r">>}
STYLES == {STYLE_NONE, <<"A","n","i","m","e">>}

DescribeResponses ==
    {[text |-> None], [text |-> Some(<< >>)], [text |-> Some(<<"c","a","t">>)]}
DescribeReplies == {None} \cup {Some(r) : r \in DescribeResponses}

TextPart == [inlineData |-> None]
InlinePart(mimeType, data) ==
    [inlineData |-> Some([mimeType |-> mimeType, data |-> data])]
JpegPart == InlinePart(Some(IMAGE_JPEG), Some(<<"Q","Q">>))
NoMimePart == InlinePart(None, Some(<<"Z","g">>))
EmptyMimePart == InlinePart(Some(<< >>), Some(<<"Z","g">>))
NoDataPart == InlinePart(Some(IMAGE_PNG), None)
PartLists ==
    { << >>, <<TextPart>>, <<TextPart, TextPart>>,
      <<JpegPart>>, <<NoMimePart>>, <<EmptyMimePart>>, <<NoDataPart>>,
      <<TextPart, JpegPart>>, <<TextPart, TextPart, NoMimePart>>,
      <<JpegPart, NoMimePart>>, <<NoMimePart, JpegPart>>,
      <<TextPart, NoMimePart, JpegPart, TextPart>> }
Candidate(content) == [content |-> content]
WithParts(parts) == Candidate(Some([parts |-> Some(parts)]))
SynthResponses ==
    { [candidates |-> None],
      [candidates |-> Some(<< >>)],
      [candidates |-> Some(<<Candidate(None)>>)],
      [candidates |-> Some(<<Candidate(Some([parts |-> None]))>>)],
      [candidates |-> Some(<<WithParts(<<TextPart>>), WithParts(<<JpegPart>>)>>)] }
    \cup { [candidates |-> Some(<<WithParts(ps)>>)] : ps \in PartLists }
SynthReplies == {None} \cup {Some(r) : r \in SynthResponses}

\* utils/fileUtils: the base64 text of a file's bytes (the bytes themselves
\* are not modelled), and the two ways the read can settle
Base64Of(f) == <<"A","Q","=","=">>
fileToBase64(f) == {None, Some(Base64Of(f))}

(***************************************************************************)
(* State of the component App.                                             *)
(***************************************************************************)
VARIABLES
    file,                \* useState<File | null>
    previewUrl,          \* useState<string | null>
    isGeneratingPrompt,  \* busy flag of the describe operation
    isGeneratingImage,   \* busy flag of the synthesize operation
    prompt,              \* the textarea's text
    generatedImage,      \* useState<string | null>: a data URI
    error,               \* useState<string | null>
    activeTab,           \* 'source' | 'generated'
    style,               \* the style preset select
    negativePrompt,      \* the negative prompt input
    promptCalls,         \* pending invocations of handleGeneratePrompt
    imageCalls           \* pending invocations of handleGenerateImage

vars == <<file, previewUrl, isGeneratingPrompt, isGeneratingImage, prompt,
          generatedImage, error, activeTab, style, negativePrompt, promptCalls,
          imageCalls>>

formVars == <<style, negativePrompt>>

Remove(seq, i) == SubSeq(seq, 1, i - 1) \o SubSeq(seq, i + 1, Len(seq))

Init ==
    /\ file = None
    /\ previewUrl = None
    /\ isGeneratingPrompt = FALSE
    /\ isGeneratingImage = FALSE
    /\ prompt = << >>
    /\ generatedImage = None
    /\ error = None
    /\ activeTab = "source"
    /\ style = STYLE_NONE
    /\ negativePrompt = << >>
    /\ promptCalls = << >>
    /\ imageCalls = << >>

(***************************************************************************)
(* File selection: processFile, handleFileChange, handleDrop, resetSource. *)
(***************************************************************************)
\* !type.startsWith('image/') && !type.startsWith('video/')
notMedia(selectedFile) ==
    /\ ~startsWith(selectedFile.type, IMAGE_PREFIX)
    /\ ~startsWith(selectedFile.type, VIDEO_PREFIX)

\* a slip: >= for >
tooLargeInclusive(selectedFile) == selectedFile.size >= MAX_FILE_SIZE

\* selectedFile.size > 15 * 1024 * 1024
tooLarge(selectedFile) == selectedFile.size > MAX_FILE_SIZE

\* URL.createObjectURL(selectedFile)
createObjectURL(f) == [blob |-> f]

\* a slip: the type check sets its message and does not return
processFileNoReturn(selectedFile) ==
    IF tooLarge(selectedFile) THEN
        /\ error' = Some(MSG_TOO_LARGE)
        /\ UNCHANGED <<file, activeTab, previewUrl>>
    ELSE
        /\ error' = IF notMedia(selectedFile) THEN Some(MSG_NOT_MEDIA) ELSE None
        /\ file' = Some(selectedFile)
        /\ activeTab' = "source"
        /\ previewUrl' = Some(createObjectURL(selectedFile))

processFile(selectedFile) ==
    IF notMedia(selectedFile) THEN
        /\ error' = Some(MSG_NOT_MEDIA)
        /\ UNCHANGED <<file, activeTab, previewUrl>>
    ELSE IF tooLarge(selectedFile) THEN
        /\ error' = Some(MSG_TOO_LARGE)
        /\ UNCHANGED <<file, activeTab, previewUrl>>
    ELSE
        /\ error' = None
        /\ file' = Some(selectedFile)
        /\ activeTab' = "source"
        /\ previewUrl' = Some(createObjectURL(selectedFile))

\* the drop zone and its hidden file input are rendered on the source tab
\* while no file is selected
dropZoneShown == activeTab = "source" /\ file = None

handleFileChange(f) ==
    /\ dropZoneShown
    /\ processFile(f)
    /\ UNCHANGED <<isGeneratingPrompt, isGeneratingImage, prompt, generatedImage,
                   formVars, promptCalls, imageCalls>>

handleDrop(f) ==
    /\ dropZoneShown
    /\ processFile(f)
    /\ UNCHANGED <<isGeneratingPrompt, isGeneratingImage, prompt, generatedImage,
                   formVars, promptCalls, imageCalls>>

\* the "Change" button is rendered on the source tab while a file is selected
resetSource ==
    /\ activeTab = "source" /\ file # None
    /\ file' = None
    /\ previewUrl' = None
    /\ error' = None
    /\ UNCHANGED <<isGeneratingPrompt, isGeneratingImage, prompt, generatedImage,
                   activeTab, formVars, promptCalls, imageCalls>>

(***************************************************************************)
(* Tabs and form fields.                                                   *)
(***************************************************************************)
setActiveTab(tab) ==
    /\ activeTab' = tab
    /\ UNCHANGED <<file, previewUrl, isGeneratingPrompt, isGeneratingImage, prompt,
                   generatedImage, error, formVars, promptCalls, imageCalls>>

setPrompt(text) ==
    /\ prompt' = text
    /\ UNCHANGED <<file, previewUrl, isGeneratingPrompt, isGeneratingImage,
                   generatedImage, error, activeTab, formVars, promptCalls,
                   imageCalls>>

setStyle(s) ==
    /\ style' = s
    /\ UNCHANGED <<file, previewUrl, isGeneratingPrompt, isGeneratingImage, prompt,
                   generatedImage, error, activeTab, negativePrompt, promptCalls,
                   imageCalls>>

setNegativePrompt(text) ==
    /\ negativePrompt' = text
    /\ UNCHANGED <<file, previewUrl, isGeneratingPrompt, isGeneratingImage, prompt,
                   generatedImage, error, activeTab, style, promptCalls,
                   imageCalls>>

(***************************************************************************)
(* The describe operation: handleGeneratePrompt.  A pending invocation     *)
(* holds the file its closure captured, the await it is suspended at and   *)
(* the requests it has sent to the remote model.                           *)
(***************************************************************************)
handleGeneratePrompt ==
    IF file = None THEN UNCHANGED vars
    ELSE
        /\ isGeneratingPrompt' = TRUE
        /\ error' = None
        /\ promptCalls' = Append(promptCalls,
               [file |-> Get(file), pc |-> "fileToBase64", requests |-> << >>])
        /\ UNCHANGED <<file, previewUrl, isGeneratingImage, prompt, generatedImage,
                       activeTab, formVars, imageCalls>>

\* disabled={!file || isGeneratingPrompt}
promptButtonDisabled == file = None \/ isGeneratingPrompt

\* the button is rendered on the source tab
clickReverseEngineerPrompt ==
    /\ activeTab = "source"
    /\ ~promptButtonDisabled
    /\ handleGeneratePrompt

\* a slip: the busy flag is cleared on success only, not in a finally
promptCallFailsKeepsBusy(i) ==
    /\ error' = Some(MSG_PROMPT_FAILED)
    /\ promptCalls' = Remove(promptCalls, i)
    /\ UNCHANGED <<file, previewUrl, isGeneratingPrompt, isGeneratingImage, prompt,
                   generatedImage, activeTab, formVars, imageCalls>>

\* catch { setError(...) } finally { setIsGeneratingPrompt(false) }
promptCallFails(i) ==
    /\ error' = Some(MSG_PROMPT_FAILED)
    /\ isGeneratingPrompt' = FALSE
    /\ promptCalls' = Remove(promptCalls, i)
    /\ UNCHANGED <<file, previewUrl, isGeneratingImage, prompt, generatedImage,
                   activeTab, formVars, imageCalls>>

\* await fileToBase64(file) settles; on success generatePromptFromMedia is
\* called and sends its request
encodingSettles(i, encoded) ==
    /\ i \in DOMAIN promptCalls
    /\ promptCalls[i].pc = "fileToBase64"
    /\ encoded \in fileToBase64(promptCalls[i].file)
    /\ IF IsSome(encoded) THEN
           /\ promptCalls' = [promptCalls EXCEPT
                  ![i].pc = "generatePromptFromMedia",
                  ![i].requests = Append(@,
                      DescribeRequest(promptCalls[i].file.type, Get(encoded)))]
           /\ UNCHANGED <<file, previewUrl, isGeneratingPrompt, isGeneratingImage,
                          prompt, generatedImage, error, activeTab, formVars,
                          imageCalls>>
       ELSE promptCallFails(i)

\* a slip: the generated text is appended to the prompt, not put in its place
describeSettlesAppends(i, reply) ==
    /\ i \in DOMAIN promptCalls
    /\ promptCalls[i].pc = "generatePromptFromMedia"
    /\ LET generated == generatePromptFromMedia(reply)
       IN  IF IsSome(generated) THEN
               /\ prompt' = prompt \o Get(generated)
               /\ isGeneratingPrompt' = FALSE
               /\ promptCalls' = Remove(promptCalls, i)
               /\ UNCHANGED <<file, previewUrl, isGeneratingImage, generatedImage,
                              error, activeTab, formVars, imageCalls>>
           ELSE promptCallFails(i)

\* await generatePromptFromMedia(...) settles
describeSettles(i, reply) ==
    /\ i \in DOMAIN promptCalls
    /\ promptCalls[i].pc = "generatePromptFromMedia"
    /\ LET generated == generatePromptFromMedia(reply)
       IN  IF IsSome(generated) THEN
               /\ prompt' = Get(generated)
               /\ isGeneratingPrompt' = FALSE
               /\ promptCalls' = Remove(promptCalls, i)
               /\ UNCHANGED <<file, previewUrl, isGeneratingImage, generatedImage,
                              error, activeTab, formVars, imageCalls>>
           ELSE promptCallFails(i)

(***************************************************************************)
(* The synthesize operation: handleGenerateImage.  generateImageFromPrompt *)
(* runs up to its await inside the click, so the request is sent at once.  *)
(***************************************************************************)
\* a slip: !prompt for !prompt.trim()
promptIsEmpty == ~Truthy(prompt)

\* !prompt.trim()
promptIsBlank == ~Truthy(trim(prompt))

handleGenerateImage ==
    IF promptIsBlank THEN
        /\ error' = Some(MSG_NO_PROMPT)
        /\ UNCHANGED <<file, previewUrl, isGeneratingPrompt, isGeneratingImage,
                       prompt, generatedImage, activeTab, formVars, promptCalls,
                       imageCalls>>
    ELSE
        /\ isGeneratingImage' = TRUE
        /\ error' = None
        /\ imageCalls' = Append(imageCalls,
               [requests |-> <<SynthRequest(prompt, style, negativePrompt)>>])
        /\ UNCHANGED <<file, previewUrl, isGeneratingPrompt, prompt, generatedImage,
                       activeTab, formVars, promptCalls>>

\* a slip: the busy flag left out of disabled
imageButtonIgnoresBusy == ~Truthy(trim(prompt))

\* disabled={!prompt.trim() || isGeneratingImage}
imageButtonDisabled == ~Truthy(trim(prompt)) \/ isGeneratingImage

clickGenerateImage ==
    /\ ~imageButtonDisabled
    /\ handleGenerateImage

\* a slip: a failed call sends its request again
synthesizeSettlesRetry(i, reply) ==
    /\ i \in DOMAIN imageCalls
    /\ LET imageUrl == generateImageFromPrompt(reply)
       IN  IF IsSome(imageUrl) THEN
               /\ generatedImage' = imageUrl
               /\ activeTab' = "generated"
               /\ isGeneratingImage' = FALSE
               /\ imageCalls' = Remove(imageCalls, i)
               /\ UNCHANGED error
           ELSE
               /\ imageCalls' = [imageCalls EXCEPT
                      ![i].requests = Append(@, @[1])]
               /\ UNCHANGED <<generatedImage, activeTab, error, isGeneratingImage>>
    /\ UNCHANGED <<file, previewUrl, isGeneratingPrompt, prompt, formVars,
                   promptCalls>>

\* a slip: the finally clears the busy flag of the other operation
synthesizeSettlesClearsPromptFlag(i, reply) ==
    /\ i \in DOMAIN imageCalls
    /\ LET imageUrl == generateImageFromPrompt(reply)
       IN  IF IsSome(imageUrl) THEN
               /\ generatedImage' = imageUrl
               /\ activeTab' = "generated"
               /\ UNCHANGED error
           ELSE
               /\ error' = Some(MSG_IMAGE_FAILED)
               /\ UNCHANGED <<generatedImage, activeTab>>
    /\ isGeneratingPrompt' = FALSE
    /\ imageCalls' = Remove(imageCalls, i)
    /\ UNCHANGED <<file, previewUrl, isGeneratingImage, prompt, formVars,
                   promptCalls>>

\* a slip: the catch also drops the image of an earlier success
synthesizeSettlesClearsImage(i, reply) ==
    /\ i \in DOMAIN imageCalls
    /\ LET imageUrl == generateImageFromPrompt(reply)
       IN  IF IsSome(imageUrl) THEN
               /\ generatedImage' = imageUrl
               /\ activeTab' = "generated"
               /\ UNCHANGED error
           ELSE
               /\ error' = Some(MSG_IMAGE_FAILED)
               /\ generatedImage' = None
               /\ UNCHANGED activeTab
    /\ isGeneratingImage' = FALSE
    /\ imageCalls' = Remove(imageCalls, i)
    /\ UNCHANGED <<file, previewUrl, isGeneratingPrompt, prompt, formVars,
                   promptCalls>>

\* await generateImageFromPrompt(...) settles
synthesizeSettles(i, reply) ==
    /\ i \in DOMAIN imageCalls
    /\ LET imageUrl == generateImageFromPrompt(reply)
       IN  IF IsSome(imageUrl) THEN
               /\ generatedImage' = imageUrl
               /\ activeTab' = "generated"
               /\ UNCHANGED error
           ELSE
               /\ error' = Some(MSG_IMAGE_FAILED)
               /\ UNCHANGED <<generatedImage, activeTab>>
    /\ isGeneratingImage' = FALSE
    /\ imageCalls' = Remove(imageCalls, i)
    /\ UNCHANGED <<file, previewUrl, isGeneratingPrompt, prompt, formVars,
                   promptCalls>>

(***************************************************************************)
(* Specifications.  Spec: the events a user can cause through the rendered *)
(* controls, and the settling of the awaited calls.                        *)
(***************************************************************************)
Next ==
    \/ \E f \in Files : handleFileChange(f)
    \/ \E f \in Files : handleDrop(f)
    \/ resetSource
    \/ \E tab \in {"source", "generated"} : setActiveTab(tab)
    \/ \E text \in TypedPrompts : setPrompt(text)
    \/ \E s \in STYLES : setStyle(s)
    \/ \E text \in TypedNegatives : setNegativePrompt(text)
    \/ clickReverseEngineerPrompt
    \/ \E i \in DOMAIN promptCalls :
           \E encoded \in fileToBase64(promptCalls[i].file) :
               encodingSettles(i, encoded)
    \/ \E i \in DOMAIN promptCalls, reply \in DescribeReplies :
           describeSettles(i, reply)
    \/ clickGenerateImage
    \/ \E i \in DOMAIN imageCalls, reply \in SynthReplies :
           synthesizeSettles(i, reply)

Spec == Init /\ [][Next]_vars

(***************************************************************************)
(* SpecHandler: handleGenerateImage invoked on whatever the prompt holds,  *)
(* without the button in front of it, which is how the branch behind the   *)
(* disabled button is exercised.                                           *)
(***************************************************************************)
callHandleGenerateImage ==
    /\ Len(imageCalls) < MaxPending
    /\ handleGenerateImage

NextHandler ==
    \/ \E text \in TypedPrompts : setPrompt(text)
    \/ \E s \in STYLES : setStyle(s)
    \/ callHandleGenerateImage
    \/ \E i \in DOMAIN imageCalls, reply \in SynthReplies :
           synthesizeSettles(i, reply)

SpecHandler == Init /\ [][NextHandler]_vars

(***************************************************************************)
(* Properties.                                                             *)
(***************************************************************************)
HasMediaType(f) ==
    startsWith(f.type, IMAGE_PREFIX) \/ startsWith(f.type, VIDEO_PREFIX)

\* the files a describe operation has read or sent
DescribedFiles(calls) == {calls[i].file : i \in DOMAIN calls}

\* C1: processFile answers a file whose type starts with neither image/ nor
\* video/ with the validation message and leaves the selected file as it
\* was; the selected file and the file of every pending describe operation
\* (the one fileToBase64 reads and generatePromptFromMedia sends) have a
\* media type.
C1_NonMediaNeverDescribed ==
    [][ /\ \A f \in Files :
              (~HasMediaType(f) /\ processFile(f)) =>
                  (error' = Some(MSG_NOT_MEDIA) /\ file' = file)
        /\ (file' # None => HasMediaType(Get(file')))
        /\ \A f \in DescribedFiles(promptCalls') : HasMediaType(f)
      ]_vars

\* a non-media file was offered and refused
C1_Witness == error = Some(MSG_NOT_MEDIA) /\ file = None

\* C2: processFile answers a file larger than 15 * 1024 * 1024 bytes with a
\* validation message and leaves the selected file as it was, so no describe
\* operation holds such a file; a media file of exactly that size is stored.
C2_OversizeNeverDescribed ==
    [][ /\ \A f \in Files :
              (f.size > 15 * 1024 * 1024 /\ processFile(f)) =>
                  (error' \in {Some(MSG_TOO_LARGE), Some(MSG_NOT_MEDIA)} /\ file' = file)
        /\ \A f \in Files :
              (f.size = 15 * 1024 * 1024 /\ HasMediaType(f) /\ processFile(f)) =>
                  (file' = Some(f) /\ error' = None)
        /\ (file' # None => Get(file').size <= 15 * 1024 * 1024)
        /\ \A f \in DescribedFiles(promptCalls') : f.size <= 15 * 1024 * 1024
      ]_vars

\* an oversized file was refused while a describe operation is reading a
\* file of exactly the largest size
C2_Witness ==
    /\ error = Some(MSG_TOO_LARGE)
    /\ \E f \in DescribedFiles(promptCalls) : f.size = 15 * 1024 * 1024

\* C3: on a prompt that is empty or all white space handleGenerateImage
\* starts no synthesize operation (sends no request), leaves the busy flag
\* as it was and sets the validation message.
C3_BlankPromptNotSynthesized ==
    [][ (trim(prompt) = << >> /\ handleGenerateImage) =>
            /\ imageCalls' = imageCalls
            /\ isGeneratingImage' = isGeneratingImage
            /\ error' = Some(MSG_NO_PROMPT)
      ]_vars

\* the handler has refused a prompt of one space
C3_Witness ==
    /\ prompt = <<" ">>
    /\ error = Some(MSG_NO_PROMPT)
    /\ ~isGeneratingImage /\ imageCalls = << >>

\* the lines of a text: its pieces between line feeds
RECURSIVE SplitLines(_)
SplitLines(text) ==
    IF \E k \in DOMAIN text : text[k] = "\n"
    THEN LET k == CHOOSE j \in DOMAIN text :
                      text[j] = "\n" /\ \A h \in 1..(j - 1) : text[h] # "\n"
         IN  <<SubSeq(text, 1, k - 1)>> \o SplitLines(SubSeq(text, k + 1, Len(text)))
    ELSE <<text>>

\* the synthesize operation a step starts, if it starts one
StartsImageCall == Len(imageCalls') = Len(imageCalls) + 1
StartedImageCall == imageCalls'[Len(imageCalls')]

\* C4: the text a synthesize operation sends is, line by line, the prompt,
\* then "Style: <preset>" exactly when the style is not "none", then
\* "Negative prompt: <text>" exactly when the negative prompt is not empty;
\* with style "none" and no negative prompt it is the prompt itself.
C4_ComposedText ==
    [][ StartsImageCall =>
          LET sent == StartedImageCall.requests[1].text
              styleLine == <<"S","t","y","l","e",":"," ">> \o style
              negativeLine ==
                  <<"N","e","g","a","t","i","v","e"," ","p","r","o","m","p","t",":"," ">>
                      \o negativePrompt
          IN  /\ SplitLines(sent) =
                    <<prompt>>
                    \o (IF style = <<"n","o","n","e">> THEN << >> ELSE <<styleLine>>)
                    \o (IF negativePrompt = << >> THEN << >> ELSE <<negativeLine>>)
              /\ (style = <<"n","o","n","e">> /\ negativePrompt = << >>) => sent = prompt
      ]_vars

\* a request of three lines, with a style and a negative prompt, is pending
C4_Witness ==
    \E i \in DOMAIN imageCalls :
        /\ Len(SplitLines(imageCalls[i].requests[1].text)) = 3
        /\ style # STYLE_NONE /\ negativePrompt # << >>

\* C5: when the describe call gets a response, the prompt becomes the
\* response's text if the text is present and not empty, and the literal
\* "Failed to generate prompt." otherwise, and no failure is reported.
C5_DescribeFallback ==
    [][ \A i \in DOMAIN promptCalls : \A response \in DescribeResponses :
            describeSettles(i, Some(response)) =>
                /\ prompt' = IF response.text = None \/ response.text = Some(<< >>)
                             THEN FALLBACK_PROMPT
                             ELSE Get(response.text)
                /\ error' = error
      ]_vars

\* the fallback text has become the prompt
C5_Witness == prompt = FALLBACK_PROMPT /\ error = None

\* the parts of a response that carry inline data, in order
InlineParts(response) ==
    SelectSeq(responseParts(response), LAMBDA part : part.inlineData # None)

\* a data URI with a MIME type and, for its payload, the base64 data of a
\* part of the response
WellFormedUri(uri, response) ==
    \E k \in DOMAIN InlineParts(response) :
        LET inline == Get(InlineParts(response)[k].inlineData)
            tail == IF inline.data = None THEN << >>
                    ELSE BASE64_MARK \o Get(inline.data)
        IN  /\ inline.data # None /\ Get(inline.data) # << >>
            /\ startsWith(uri, DATA_SCHEME)
            /\ Len(uri) > Len(DATA_SCHEME) + Len(tail)
            /\ SubSeq(uri, Len(uri) - Len(tail) + 1, Len(uri)) = tail

\* C6: a response without a part carrying inline data makes the synthesize
\* call raise, so that the failure message is set and the image kept; and
\* whatever the response, an image the call returns is a data URI with a
\* MIME type and a base64 payload.
C6_NoPartialDataUri ==
    [][ Len(imageCalls') < Len(imageCalls) =>
          \A i \in DOMAIN imageCalls : \A response \in SynthResponses :
            synthesizeSettles(i, Some(response)) =>
                /\ InlineParts(response) = << >> =>
                       (error' = Some(MSG_IMAGE_FAILED) /\ generatedImage' = generatedImage)
                /\ InlineParts(response) # << >> =>
                       (generatedImage' # None
                        /\ WellFormedUri(Get(generatedImage'), response))
      ]_vars

\* C7: when some part of the response carries inline data, the image
\* becomes "data:<mimeType>;base64,<data>" of the first such part, with
\* image/png for a MIME type that is absent or empty.
C7_FirstInlinePart ==
    [][ Len(imageCalls') < Len(imageCalls) =>
          \A i \in DOMAIN imageCalls : \A response \in SynthResponses :
            (synthesizeSettles(i, Some(response)) /\ InlineParts(response) # << >>) =>
                LET inline == Get(InlineParts(response)[1].inlineData)
                    mime == IF inline.mimeType = None \/ inline.mimeType = Some(<< >>)
                            THEN <<"i","m","a","g","e","/","p","n","g">>
                            ELSE Get(inline.mimeType)
                IN  generatedImage' =
                        Some(<<"d","a","t","a",":">> \o mime
                             \o <<";","b","a","s","e","6","4",",">>
                             \o Interpolate(inline.data))
      ]_vars

\* the image of a part that came after parts without inline data and that
\* named no MIME type
C7_Witness ==
    generatedImage = Some(DATA_SCHEME \o IMAGE_PNG \o BASE64_MARK \o <<"Z","g">>)

\* C8: when a describe operation succeeds the prompt becomes the string the
\* describe call returned; the prompt changes by nothing but that and an
\* edit of the textarea; and the text a synthesize operation sends begins
\* with the prompt as it stands at the click, followed by nothing or by a
\* new line.  So a synthesize operation started after a successful describe
\* operation, with no edit between, composes its text from the described
\* string.
C8_DescribedPromptSynthesized ==
    [][ /\ \A i \in DOMAIN promptCalls : \A response \in DescribeResponses :
              describeSettles(i, Some(response)) =>
                  prompt' = Get(generatePromptFromMedia(Some(response)))
        /\ prompt' # prompt =>
              \/ \E text \in TypedPrompts : setPrompt(text)
              \/ \E i \in DOMAIN promptCalls : \E response \in DescribeResponses :
                     describeSettles(i, Some(response))
        /\ StartsImageCall =>
              LET sent == StartedImageCall.requests[1].text
              IN  /\ prompt' = prompt
                  /\ startsWith(sent, prompt)
                  /\ Len(sent) > Len(prompt) => sent[Len(prompt) + 1] = "\n"
      ]_vars

\* the described text is the prompt and a pending synthesize operation has
\* sent a text that begins with it
C8_Witness ==
    /\ prompt = <<"c","a","t">>
    /\ \E i \in DOMAIN imageCalls :
           startsWith(imageCalls[i].requests[1].text, <<"c","a","t">>)

\* the operations a step settles: those that were pending and are gone
SettledPromptCalls == {i \in DOMAIN promptCalls : promptCalls' = Remove(promptCalls, i)}
SettledImageCalls == {i \in DOMAIN imageCalls : imageCalls' = Remove(imageCalls, i)}

\* C9 as stated: every describe and every synthesize operation that settles
\* has sent exactly one request to the remote model.
C9_ExactlyOneRequest ==
    [][ /\ \A i \in SettledPromptCalls : Len(promptCalls[i].requests) = 1
        /\ \A i \in SettledImageCalls : Len(imageCalls[i].requests) = 1
      ]_vars

\* C9 as amended: a synthesize operation sends exactly one request; a
\* describe operation sends exactly one once its file is encoded and none
\* when the encoding fails; no operation ever sends a second one, and the
\* step that reports a failure ends the operation and sends nothing.
C9_OneRequestUnlessEncodingFails ==
    [][ /\ \A i \in SettledPromptCalls :
              Len(promptCalls[i].requests) =
                  IF promptCalls[i].pc = "fileToBase64" THEN 0 ELSE 1
        /\ \A i \in SettledImageCalls : Len(imageCalls[i].requests) = 1
        /\ \A i \in DOMAIN promptCalls' :
              Len(promptCalls'[i].requests) =
                  IF promptCalls'[i].pc = "fileToBase64" THEN 0 ELSE 1
        /\ \A i \in DOMAIN imageCalls' : Len(imageCalls'[i].requests) = 1
        /\ (error' # error /\ error' \in {Some(MSG_PROMPT_FAILED), Some(MSG_IMAGE_FAILED)}) =>
              \/ SettledPromptCalls # {} /\ imageCalls' = imageCalls
              \/ SettledImageCalls # {} /\ promptCalls' = promptCalls
      ]_vars

\* a synthesize operation has failed and is gone, nothing was sent again,
\* and a describe operation is waiting for the answer to its one request
C9_Witness ==
    /\ error = Some(MSG_IMAGE_FAILED)
    /\ imageCalls = << >>
    /\ \E i \in DOMAIN promptCalls : Len(promptCalls[i].requests) = 1

\* C10: at most one describe and at most one synthesize operation are
\* pending, and no step starts an operation of a kind whose busy flag is set.
C10_OneInFlightPerKind ==
    [][ /\ Len(promptCalls') <= 1
        /\ Len(imageCalls') <= 1
        /\ isGeneratingPrompt => Len(promptCalls') <= Len(promptCalls)
        /\ isGeneratingImage => Len(imageCalls') <= Len(imageCalls)
      ]_vars

\* one operation of each kind is pending, both busy flags set
C10_Witness ==
    /\ Len(promptCalls) = 1 /\ Len(imageCalls) = 1
    /\ isGeneratingPrompt /\ isGeneratingImage

\* the steps of an operation: its start and its settling
PromptStep == promptCalls' # promptCalls
ImageStep == imageCalls' # imageCalls

\* C11 as stated: the two kinds of operation touch disjoint state, so a
\* step of one leaves alone what the other wrote and shows: the prompt, the
\* image, the tab, the busy flags, and the failure message of an operation
\* of the other kind that failed while this one was pending.
C11_DisjointState ==
    [][ /\ ImageStep =>
              /\ UNCHANGED <<prompt, isGeneratingPrompt, promptCalls>>
              /\ (imageCalls # << >> /\ error = Some(MSG_PROMPT_FAILED)) => error' = error
        /\ PromptStep =>
              /\ UNCHANGED <<generatedImage, activeTab, isGeneratingImage, imageCalls>>
              /\ (promptCalls # << >> /\ error = Some(MSG_IMAGE_FAILED)) => error' = error
      ]_vars

\* C11 as amended: apart from the error message, which both kinds of
\* operation clear at their start and set at their failure, the two kinds
\* write disjoint state: a step of a synthesize operation leaves the prompt,
\* the describe busy flag and the pending describe operations alone, and a
\* step of a describe operation leaves the image, the tab, the synthesize
\* busy flag and the pending synthesize operations with their requests alone;
\* neither changes the selected file or the form fields.
C11_DisjointButError ==
    [][ /\ ImageStep =>
              UNCHANGED <<prompt, isGeneratingPrompt, promptCalls, file, previewUrl,
                          style, negativePrompt>>
        /\ PromptStep =>
              UNCHANGED <<generatedImage, activeTab, isGeneratingImage, imageCalls,
                          file, previewUrl, style, negativePrompt>>
      ]_vars

\* a synthesize operation has failed while a describe operation is pending
C11_Witness ==
    /\ error = Some(MSG_IMAGE_FAILED)
    /\ promptCalls # << >> /\ isGeneratingPrompt
    /\ imageCalls = << >>

\* the step in which an operation reports its failure
PromptFailure == SettledPromptCalls # {} /\ error' = Some(MSG_PROMPT_FAILED)
ImageFailure == SettledImageCalls # {} /\ error' = Some(MSG_IMAGE_FAILED)

\* C12: the step in which a describe or a synthesize operation fails leaves
\* the generated image, the prompt, the selected file and the active tab as
\* they were, so an image generated before stays the one shown.
C12_FailureKeepsResults ==
    [][ (PromptFailure \/ ImageFailure) =>
            UNCHANGED <<generatedImage, prompt, file, previewUrl, activeTab>>
      ]_vars

\* an image generated before is still shown, on its tab, after a later
\* synthesize operation has failed
C12_Witness ==
    /\ generatedImage # None
    /\ activeTab = "generated"
    /\ error = Some(MSG_IMAGE_FAILED)
    /\ imageCalls = << >>

\* C13: a busy flag is set exactly while an operation of its kind is
\* pending: it is set from the start of the operation until its awaited call
\* settles, and it is clear once the call has settled, with a value or with
\* a failure.
C13_BusyWhilePending ==
    /\ isGeneratingPrompt <=> promptCalls # << >>
    /\ isGeneratingImage <=> imageCalls # << >>

\* a describe operation has settled with a failure and a synthesize
\* operation with a value, and both flags are clear
C13_Witness ==
    /\ error = Some(MSG_PROMPT_FAILED)
    /\ generatedImage # None
    /\ ~isGeneratingPrompt /\ ~isGeneratingImage
    /\ promptCalls = << >> /\ imageCalls = << >>

====
